---------------------------- MODULE Spec2Model ----------------------------
(***************************************************************************)
(* A model of dockerfile-analyzer: the analysis of a parsed Dockerfile     *)
(* (src/src/analyzer.rs) and the key/value decoder of ARG, ENV and LABEL   *)
(* argument text (src/src/parse_utils.rs).                                 *)
(*                                                                         *)
(* A string is a sequence of one-character strings, so that case folding,  *)
(* prefix tests, splitting and the byte order of BTreeSet<String> are      *)
(* computed character by character as the code computes them.              *)
(***************************************************************************)
EXTENDS Integers, Sequences, FiniteSets, TLC

VARIABLES
    df,       \* the input of analyze_dockerfile: the parsed instruction sequence
    pc,       \* "parsed" | "done" | "error" | "idle"
    report,   \* the Analysis returned, or NoReport
    err,      \* the error analyze_dockerfile returned, or None
    py,       \* what the binding layer handed to its caller, or None
    seed,     \* the hash keys the HashMaps of the next run are built with
    ins,      \* the input of the key/value decoder: the raw argument text
    form,     \* how ins was written from key and val, or "free"
    key,      \* the key the text was written from (forms only)
    val,      \* the value the text was written from (forms only)
    res,      \* what parse_kv_instruction returned: a set of <<key, value>>
    res_opt,  \* what parse_kv_instruction_opt_val returned: <<key, Option>>
    done      \* the entry points that have run on ins: a subset of {"env", "arg"}

vars == <<df, pc, report, err, py, seed, ins, form, key, val, res, res_opt, done>>

analyzerVars == <<df, pc, report, err, py, seed>>
decoderVars == <<ins, form, key, val, res, res_opt, done>>

(***************************************************************************)
(* Strings                                                                 *)
(***************************************************************************)

\* Option<T>: None, or the value wrapped the way Some(v) wraps it.
None == [none |-> TRUE]
Some(v) == [some |-> v]
IsSome(o) == "some" \in DOMAIN o

\* The code point of a character (the order of String is the order of its bytes).
Ord(c) ==
    CASE c = "\t" -> 9
      [] c = "\n" -> 10
      [] c = "\r" -> 13
      [] c = " " -> 32
      [] c = "\"" -> 34
      [] c = "#" -> 35
      [] c = "$" -> 36
      [] c = "'" -> 39
      [] c = "/" -> 47
      [] c = "0" -> 48
      [] c = "3" -> 51
      [] c = "4" -> 52
      [] c = "8" -> 56
      [] c = "9" -> 57
      [] c = "=" -> 61
      [] c = "A" -> 65
      [] c = "B" -> 66
      [] c = "E" -> 69
      [] c = "K" -> 75
      [] c = "N" -> 78
      [] c = "V" -> 86
      [] c = "\\" -> 92
      [] c = "a" -> 97
      [] c = "b" -> 98
      [] c = "e" -> 101
      [] c = "k" -> 107
      [] c = "n" -> 110
      [] c = "u" -> 117
      [] c = "v" -> 118
      [] c = "x" -> 120
      [] c = "y" -> 121

\* char::to_lowercase on the characters of the model.
LowerChar(c) ==
    CASE c = "A" -> "a"
      [] c = "B" -> "b"
      [] c = "E" -> "e"
      [] c = "K" -> "k"
      [] c = "N" -> "n"
      [] c = "V" -> "v"
      [] OTHER -> c

\* str::to_lowercase
to_lowercase(s) == [i \in 1..Len(s) |-> LowerChar(s[i])]

\* str::starts_with(char), str::ends_with(char)
starts_with(s, c) == Len(s) > 0 /\ s[1] = c
ends_with(s, c) == Len(s) > 0 /\ s[Len(s)] = c

\* Ord for String: lexicographic on the bytes, a proper prefix first.
StrLess(s, t) ==
    \E i \in 1..(Len(t)) :
        /\ \A j \in 1..(i - 1) : j <= Len(s) /\ s[j] = t[j]
        /\ \/ i = Len(s) + 1
           \/ i <= Len(s) /\ Ord(s[i]) < Ord(t[i])

Range(q) == {q[i] : i \in 1..Len(q)}

RECURSIVE BTreeIterDescending(_)
\* The elements of S in descending order.
BTreeIterDescending(S) ==
    IF S = {} THEN <<>>
    ELSE LET m == CHOOSE x \in S : \A y \in S : x = y \/ StrLess(y, x)
         IN <<m>> \o BTreeIterDescending(S \ {m})

\* RandomState: the hash keys of a HashMap decide the order in which it hands
\* out its entries.  Every RandomState::new() takes the keys after those of
\* the one before.
Seeds == {"s0", "s1"}
FirstSeed == "s0"
next_seed(s) == IF s = "s0" THEN "s1" ELSE "s0"

RECURSIVE HashSetIter(_)
\* HashSet<String>::into_iter: the elements in the order of the hash keys.
HashSetIter(S) ==
    IF S = {} THEN <<>>
    ELSE LET m == CHOOSE x \in S :
                      \A y \in S : x = y \/ (IF seed = FirstSeed THEN StrLess(x, y)
                                                                 ELSE StrLess(y, x))
         IN <<m>> \o HashSetIter(S \ {m})

RECURSIVE BTreeIter(_)
\* BTreeSet<String>::into_iter: the elements in ascending order, each once.
BTreeIter(S) ==
    IF S = {} THEN <<>>
    ELSE LET m == CHOOSE x \in S : \A y \in S : x = y \/ StrLess(x, y)
         IN <<m>> \o BTreeIter(S \ {m})

(***************************************************************************)
(* parse_utils.rs                                                          *)
(***************************************************************************)

ARG_LC == <<"a", "r", "g">>
ENV_LC == <<"e", "n", "v">>
EQUALS == "="
LABEL_LC == <<"l", "a", "b", "e", "l">>

RECURSIVE Lex(_, _, _, _, _)
\* shlex::Shlex over the text s from position i: mode is "skip" (between
\* words), "comment", "word", "dq" or "sq" (inside double or single quotes),
\* cur the word being built, out the words so far.  None on malformed
\* quoting (an unclosed quote, a trailing backslash).  Inside double quotes
\* a backslash escapes '$', '"' and '\' (and the backquote, a character no
\* text of the model holds); before any other character it is kept.
Lex(s, i, mode, cur, out) ==
    IF i > Len(s) THEN
        CASE mode \in {"skip", "comment"} -> Some(out)
          [] mode = "word" -> Some(Append(out, cur))
          [] OTHER -> None
    ELSE
    LET c == s[i] IN
    CASE mode = "skip" ->
            IF c \in {" ", "\t", "\n"} THEN Lex(s, i + 1, "skip", <<>>, out)
            ELSE IF c = "#" THEN Lex(s, i + 1, "comment", <<>>, out)
            ELSE Lex(s, i, "word", <<>>, out)
      [] mode = "comment" ->
            IF c = "\n" THEN Lex(s, i + 1, "skip", <<>>, out)
            ELSE Lex(s, i + 1, "comment", <<>>, out)
      [] mode = "word" ->
            IF c = "\"" THEN Lex(s, i + 1, "dq", cur, out)
            ELSE IF c = "'" THEN Lex(s, i + 1, "sq", cur, out)
            ELSE IF c = "\\" THEN
                IF i + 1 > Len(s) THEN None
                ELSE IF s[i + 1] = "\n" THEN Lex(s, i + 2, "word", cur, out)
                ELSE Lex(s, i + 2, "word", Append(cur, s[i + 1]), out)
            ELSE IF c \in {" ", "\t", "\n"} THEN
                Lex(s, i + 1, "skip", <<>>, Append(out, cur))
            ELSE Lex(s, i + 1, "word", Append(cur, c), out)
      [] mode = "dq" ->
            IF c = "\\" THEN
                IF i + 1 > Len(s) THEN None
                ELSE IF s[i + 1] \in {"$", "\"", "\\"} THEN
                    Lex(s, i + 2, "dq", Append(cur, s[i + 1]), out)
                ELSE IF s[i + 1] = "\n" THEN Lex(s, i + 2, "dq", cur, out)
                ELSE Lex(s, i + 2, "dq", cur \o <<"\\", s[i + 1]>>, out)
            ELSE IF c = "\"" THEN Lex(s, i + 1, "word", cur, out)
            ELSE Lex(s, i + 1, "dq", Append(cur, c), out)
      [] mode = "sq" ->
            IF c = "'" THEN Lex(s, i + 1, "word", cur, out)
            ELSE Lex(s, i + 1, "sq", Append(cur, c), out)

\* shlex::split
shlex_split(s) == Lex(s, 1, "skip", <<>>, <<>>)

\* A noise filter that lets the empty tokens through.
RetainKeepsEmpty(s) ==
    /\ to_lowercase(s) # ARG_LC
    /\ to_lowercase(s) # ENV_LC
    /\ to_lowercase(s) # LABEL_LC
    /\ s # <<"\r">>

\* toks.retain(|s| ...): the tokens kept.
retain(s) ==
    /\ s # <<>>
    /\ to_lowercase(s) # ARG_LC
    /\ to_lowercase(s) # ENV_LC
    /\ to_lowercase(s) # LABEL_LC
    /\ s # <<"\r">>

\* A split at the last '=' of the token.
SplitAtLast(tok) ==
    LET i == CHOOSE i \in 1..Len(tok) :
                 tok[i] = EQUALS /\ \A j \in (i + 1)..Len(tok) : tok[j] # EQUALS
    IN <<SubSeq(tok, 1, i - 1), SubSeq(tok, i + 1, Len(tok))>>

\* str::split_once(EQUALS): the parts before and after the first '='.
split_once(tok) ==
    LET i == CHOOSE i \in 1..Len(tok) :
                 tok[i] = EQUALS /\ \A j \in 1..(i - 1) : tok[j] # EQUALS
    IN <<SubSeq(tok, 1, i - 1), SubSeq(tok, i + 1, Len(tok))>>

\* One turn of the loop over toks: what is pushed to processed for tok, prev
\* being the token of the turn before (None in the first turn).
push_of(tok, prev) ==
    IF tok = <<EQUALS>> THEN <<>>
    ELSE IF starts_with(tok, EQUALS) THEN <<Tail(tok)>>
    ELSE IF ends_with(tok, EQUALS) THEN <<SubSeq(tok, 1, Len(tok) - 1)>>
    ELSE IF IsSome(prev) /\ ends_with(prev.some, EQUALS) THEN <<tok>>
    ELSE IF EQUALS \in Range(tok) THEN split_once(tok)
    ELSE <<tok>>

\* A decoder that takes a text it cannot split as one token.
ExtractTokensWhole(text) ==
    LET sp == shlex_split(text) IN
    IF ~IsSome(sp) THEN <<text>>
    ELSE
    LET kept == SelectSeq(sp.some, retain)
        P[n \in 0..Len(kept)] ==
            IF n = 0 THEN <<>>
            ELSE P[n - 1] \o push_of(kept[n], IF n = 1 THEN None ELSE Some(kept[n - 1]))
    IN P[Len(kept)]

\* extract_tokens_from_instr: processed stays empty when shlex::split gives
\* None.
extract_tokens_from_instr(text) ==
    LET sp == shlex_split(text) IN
    IF ~IsSome(sp) THEN <<>>
    ELSE
    LET kept == SelectSeq(sp.some, retain)
        P[n \in 0..Len(kept)] ==
            IF n = 0 THEN <<>>
            ELSE P[n - 1] \o push_of(kept[n], IF n = 1 THEN None ELSE Some(kept[n - 1]))
    IN P[Len(kept)]

\* A map that keeps the first value written for a key.
InsertFirstWins(m, k, v) == IF \E p \in m : p[1] = k THEN m ELSE m \cup {<<k, v>>}

\* HashMap::insert: the entry of k is replaced.
insert(m, k, v) == {p \in m : p[1] # k} \cup {<<k, v>>}

\* A fold over v.chunks_exact(2): a last chunk of one token is left out.
VecToMapExact(v) ==
    LET F[c \in 0..(Len(v) \div 2)] ==
            IF c = 0 THEN {} ELSE insert(F[c - 1], v[2 * c - 1], v[2 * c])
    IN F[Len(v) \div 2]

\* vec_to_map: the fold over v.chunks(2); a chunk [k, v] inserts k -> v, a
\* last chunk [k] inserts k -> "".
vec_to_map(v) ==
    LET n == (Len(v) + 1) \div 2
        F[c \in 0..n] ==
            IF c = 0 THEN {}
            ELSE IF 2 * c <= Len(v)
                 THEN insert(F[c - 1], v[2 * c - 1], v[2 * c])
                 ELSE insert(F[c - 1], v[2 * c - 1], <<>>)
    IN F[n]

\* A fold that gives an unpaired key Some("") instead of None.
VecToMapOptValEmpty(v) ==
    LET n == (Len(v) + 1) \div 2
        F[c \in 0..n] ==
            IF c = 0 THEN {}
            ELSE IF 2 * c <= Len(v)
                 THEN insert(F[c - 1], v[2 * c - 1], Some(v[2 * c]))
                 ELSE insert(F[c - 1], v[2 * c - 1], Some(<<>>))
    IN F[n]

\* vec_to_map_opt_val: a chunk [k, v] inserts k -> Some(v), a last chunk [k]
\* inserts k -> None.
vec_to_map_opt_val(v) ==
    LET n == (Len(v) + 1) \div 2
        F[c \in 0..n] ==
            IF c = 0 THEN {}
            ELSE IF 2 * c <= Len(v)
                 THEN insert(F[c - 1], v[2 * c - 1], Some(v[2 * c]))
                 ELSE insert(F[c - 1], v[2 * c - 1], None)
    IN F[n]

\* Chunks one token longer than asked for.
ChunksOversize(v, size) ==
    [c \in 1..((Len(v) + size) \div (size + 1)) |->
        SubSeq(v, (size + 1) * (c - 1) + 1,
               IF (size + 1) * c <= Len(v) THEN (size + 1) * c ELSE Len(v))]

\* slice::chunks(size): the chunks of v in order, each of size elements but
\* the last, which has what is left.
chunks(v, size) ==
    [c \in 1..((Len(v) + size - 1) \div size) |->
        SubSeq(v, size * (c - 1) + 1, IF size * c <= Len(v) THEN size * c ELSE Len(v))]

\* The match of vec_to_map and of vec_to_map_opt_val on the chunks of
\* v.chunks(2): the arm `_ => unreachable!()` is taken by a chunk that is
\* neither [k, v] nor [k].
fold_unreachable(v) ==
    LET ch == chunks(v, 2) IN \E c \in 1..Len(ch) : Len(ch[c]) \notin {1, 2}

parse_kv_instruction(text) == vec_to_map(extract_tokens_from_instr(text))

parse_kv_instruction_opt_val(text) == vec_to_map_opt_val(extract_tokens_from_instr(text))

(***************************************************************************)
(* The parsed Dockerfile (parse_dockerfile's Instruction and Stage)        *)
(***************************************************************************)

\* constants::FROM, the flag name get_from_flag_val looks for.
FROM == "from"

\* The kind names extract_instructions counts under (constants::ADD and the
\* like; FROM_UC for FROM).
ADD == "ADD"
ARG == "ARG"
COPY == "COPY"
ENV == "ENV"
EXPOSE == "EXPOSE"
FROM_UC == "FROM"
LABEL == "LABEL"
RUN == "RUN"

\* The base-image expressions, aliases, flag lists and port lists the inputs
\* are drawn from.
Images == {<<"u">>, <<"a">>, <<"B">>, <<"b">>, <<"$", "B">>}
Aliases == {<<"a">>, <<"B">>}
Flag(n, v) == [name |-> n, value |-> v]
CopyFlagLists ==
    { <<>>,
      <<Flag("from", Some(<<"a">>))>>,
      <<Flag("link", None), Flag("FROM", Some(<<"u">>)), Flag("from", Some(<<"b">>))>>,
      <<Flag("from", None), Flag("from", Some(<<"B">>)), Flag("from", Some(<<"a">>))>> }
AddFlagLists ==
    { <<>>,
      <<Flag("from", Some(<<"a">>))>>,
      <<Flag("chown", Some(<<"a">>)), Flag("from", Some(<<"B">>))>> }
PortLists ==
    { <<<<"8", "0">>>>,
      <<<<"8", "0", "8", "0">>, <<"8", "4", "4", "3">>>>,
      <<<<"9">>, <<"8", "0", "/", "u">>, <<"8", "0">>>> }
\* The argument texts of the ARG, ENV and LABEL instructions; the last of
\* each has a quote that is never closed.
ArgTexts == {<<"K", "=", "a">>, <<"K">>, <<"\"", "K">>}
EnvTexts == {<<"K", "=", "a", " ", "k", "=", "b">>, <<"K", "=", "b">>, <<"k", "=", "\"", "a">>}
LabelTexts == {<<"K", " ", "b">>, <<"k", " ", "'", "b">>}

FromInstr(img, alias) == [kind |-> "FROM", image |-> img, as_ |-> alias]
CopyInstr(fl) == [kind |-> "COPY", options |-> fl]
AddInstr(fl) == [kind |-> "ADD", options |-> fl]
ExposeInstr(ps) == [kind |-> "EXPOSE", arguments |-> ps]
ArgInstr(t) == [kind |-> "ARG", arguments |-> t]
EnvInstr(t) == [kind |-> "ENV", arguments |-> t]
LabelInstr(t) == [kind |-> "LABEL", arguments |-> t]
RunInstr == [kind |-> "RUN"]
\* An instruction of a variant the match of extract_instructions does not
\* name: Instruction is a non_exhaustive enum.
OtherInstr == [kind |-> "OTHER"]
\* A line of the text whose first word is no instruction keyword.
UnknownLine == [kind |-> "?", word |-> "x"]

\* A stage whose alias differs from the alias B in letter case only.
FromAsLowerB == FromInstr(<<"u">>, Some(<<"b">>))
\* The stages: every image without alias, the images of NamedImages with each
\* alias.
NamedImages == {<<"u">>, <<"a">>, <<"$", "B">>}
FromInstrs ==
    {FromInstr(i, None) : i \in Images}
        \cup {FromInstr(i, Some(x)) : i \in NamedImages, x \in Aliases}
        \cup {FromAsLowerB}
InstrAlphabet ==
    FromInstrs
    \cup {CopyInstr(fl) : fl \in CopyFlagLists}
    \cup {AddInstr(fl) : fl \in AddFlagLists}
    \cup {ExposeInstr(ps) : ps \in PortLists}
    \cup {ArgInstr(t) : t \in ArgTexts}
    \cup {EnvInstr(t) : t \in EnvTexts}
    \cup {LabelInstr(t) : t \in LabelTexts}
    \cup {RunInstr, OtherInstr}

\* The lines a text is made of, and the lines a text starts with: a FROM, an
\* ARG, an instruction the parser does not take before the first FROM, or an
\* unknown keyword.
Lines == InstrAlphabet \cup {UnknownLine}
FirstLines == FromInstrs \cup {ArgInstr(<<"K", "=", "a">>), RunInstr, UnknownLine}

\* The longest instruction sequence drawn.
MaxInstr == 3

\* The texts handed to the analysis, line by line; blank lines and comments
\* are no lines, so the empty text and the comment-only text are <<>>.
Dockerfiles ==
    UNION { {d \in [1..n -> Lines] : n > 0 => d[1] \in FirstLines} : n \in 0..MaxInstr }

\* Dockerfile::stages: one stage per FROM instruction, in file order.
stages(d) ==
    LET idx == {i \in 1..Len(d) : d[i].kind = "FROM"}
        F[k \in 0..Cardinality(idx)] ==
            IF k = 0 THEN <<>>
            ELSE LET i == CHOOSE i \in idx :
                              Cardinality({j \in idx : j < i}) = k - 1
                 IN Append(F[k - 1], [from |-> d[i], at |-> i])
    IN F[Cardinality(idx)]

\* The diagnostic of parse, or None when it accepts.  The parser reads the
\* lines in order and stops at the first it cannot take: a keyword it does
\* not know, or an instruction other than ARG before the first FROM.  A text
\* read to its end is rejected when it has no FROM, and when two stages
\* declare the same alias (the names compared as written).
parse_error(d) ==
    LET st == stages(d)
        bad == {i \in 1..Len(d) :
                   \/ d[i].kind = "?"
                   \/ /\ d[i].kind \notin {"FROM", "ARG"}
                      /\ \A j \in 1..(i - 1) : d[j].kind # "FROM"}
        dup == {j \in 1..Len(st) :
                   /\ IsSome(st[j].from.as_)
                   /\ \E i \in 1..(j - 1) :
                        /\ IsSome(st[i].from.as_)
                        /\ st[i].from.as_.some = st[j].from.as_.some}
    IN IF bad # {} THEN
           LET i == CHOOSE i \in bad : \A j \in bad : i <= j
           IN IF d[i].kind = "?"
              THEN Some([kind |-> "unknown instruction", arg |-> <<d[i].word>>, line |-> i])
              ELSE Some([kind |-> "expected FROM", arg |-> <<>>, line |-> i])
       ELSE IF Len(st) = 0 THEN
           Some([kind |-> "expected at least one FROM instruction", arg |-> <<>>, line |-> 0])
       ELSE IF dup # {} THEN
           LET j == CHOOSE j \in dup : \A k \in dup : j <= k
           IN Some([kind |-> "duplicate name", arg |-> <<st[j].from.as_.some>>,
                    line |-> st[j].at])
       ELSE None

\* parse(body) is Ok: what it returns is the instruction sequence.
parse_accepts(d) == ~IsSome(parse_error(d))

\* Display for the parser's error: the kind with its argument, then the place
\* in the text when there is one.
to_string(e) ==
    <<e.kind>> \o e.arg \o (IF e.line = 0 THEN <<>> ELSE <<"at line", e.line>>)

(***************************************************************************)
(* analyzer.rs                                                             *)
(***************************************************************************)

\* The value of the last flag named "from" that has one.
GetFromFlagValLast(instruction) ==
    LET opts == instruction.options
        hits == {i \in 1..Len(opts) : opts[i].name = FROM /\ IsSome(opts[i].value)}
    IN IF hits = {} THEN None
       ELSE LET i == CHOOSE i \in hits : \A j \in hits : i >= j
            IN Some(opts[i].value.some)

\* get_from_flag_val: the value of the first flag named "from" that has one.
get_from_flag_val(instruction) ==
    LET opts == instruction.options
        hits == {i \in 1..Len(opts) : opts[i].name = FROM /\ IsSome(opts[i].value)}
    IN IF hits = {} THEN None
       ELSE LET i == CHOOSE i \in hits : \A j \in hits : i <= j
            IN Some(opts[i].value.some)

\* is_multistage without the stage count.
MultistageAnyCount(num_stages, used_stages) == used_stages # {}

\* let is_multistage = num_stages >= 2 && !used_stages.is_empty();
is_multistage_of(num_stages, used_stages) ==
    num_stages >= 2 /\ used_stages # {}

\* unused_stages as all of stage_names.
UnusedAll(stage_names, used_stages) == stage_names

\* stage_names.difference(&used_stages)
unused_of(stage_names, used_stages) == stage_names \ used_stages

\* A difference where the intersection is meant.
IntersectionAsDifference(a, b) == a \ b

\* The second set where the intersection is meant.
IntersectionAsSecond(a, b) == b

\* stage_names.intersection(images), and the like
intersection(a, b) == a \cap b

analyze_multistage(num_stages, images, stage_names, copy_from_stages, add_from_stages) ==
    LET stages_used_as_base_images == intersection(stage_names, images)
        stages_copied_from == intersection(stage_names, copy_from_stages)
        stages_added_from == intersection(stage_names, add_from_stages)
        used_stages ==
            stages_used_as_base_images \cup stages_copied_from \cup stages_added_from
        unused_stages == unused_of(stage_names, used_stages)
    IN [ is_multistage |-> is_multistage_of(num_stages, used_stages),
         stages_used_as_base_images |-> BTreeIter(stages_used_as_base_images),
         stages_copied_from |-> BTreeIter(stages_copied_from),
         stages_added_from |-> BTreeIter(stages_added_from),
         unused_stages |-> BTreeIter(unused_stages) ]

\* DockerImage::parse: the decomposer accepts a reference made of lower-case
\* letters and digits (no '$', no upper-case letter) and returns its parts.
DockerImage_parse(img) ==
    IF \A i \in 1..Len(img) : img[i] # "$" /\ LowerChar(img[i]) = img[i]
    THEN Some([registry |-> None, name |-> img, tag |-> None, digest |-> None])
    ELSE None

\* An inventory of the images the decomposer accepts alone.
GetParsedImagesAccepted(images) ==
    LET q == BTreeIter({x \in images : IsSome(DockerImage_parse(x))})
    IN [i \in 1..Len(q) |-> [full |-> q[i], components |-> DockerImage_parse(q[i])]]

\* get_parsed_images: one Image per element of the set, in the set's order.
get_parsed_images(images) ==
    LET q == BTreeIter(images)
    IN [i \in 1..Len(q) |-> [full |-> q[i], components |-> DockerImage_parse(q[i])]]

\* The base-image text of a stage: kept verbatim when it starts with '$',
\* lower-cased otherwise.
image_text(value) ==
    IF starts_with(value, "$") THEN value ELSE to_lowercase(value)

\* The alias of a stage as it is written.
AliasTextVerbatim(stage_name) == stage_name

\* The alias of a stage, lower-cased.
alias_text(stage_name) == to_lowercase(stage_name)

\* A stage without alias named by its base image.
StageInfoNamesAll(st) ==
    [ images |-> {image_text(st[i].from.image) : i \in 1..Len(st)},
      stage_names |->
          {IF IsSome(st[i].from.as_) THEN alias_text(st[i].from.as_.some)
                                     ELSE image_text(st[i].from.image) :
              i \in 1..Len(st)} ]

\* extract_stage_info: the base images of all stages, and the aliases of the
\* stages that have one.
extract_stage_info(st) ==
    [ images |-> {image_text(st[i].from.image) : i \in 1..Len(st)},
      stage_names |->
          {alias_text(st[i].from.as_.some) :
              i \in {j \in 1..Len(st) : IsSome(st[j].from.as_)}} ]

\* The value of the flag as it is written.
FromTextVerbatim(v) == v

\* target_set.insert(val.to_lowercase())
from_text(v) == to_lowercase(v)

extract_from_references(instructions) ==
    LET refs(k) ==
            {from_text(get_from_flag_val(instructions[i]).some) :
                i \in {j \in 1..Len(instructions) :
                          /\ instructions[j].kind = k
                          /\ IsSome(get_from_flag_val(instructions[j]))}}
    IN [copy_from_stages |-> refs("COPY"), add_from_stages |-> refs("ADD")]

\* extract_from_references, the first match on ins: from_val for a COPY and
\* an ADD, `continue` for every other instruction.
from_val_of(instr) ==
    IF instr.kind \in {"COPY", "ADD"}
    THEN [continue |-> FALSE, from_val |-> get_from_flag_val(instr)]
    ELSE [continue |-> TRUE, from_val |-> None]

\* extract_from_references, the match that selects target_set: the arm
\* `_ => unreachable!()` is taken when from_val is Some for an instruction
\* that is neither a COPY nor an ADD.
target_unreachable(instructions) ==
    \E i \in 1..Len(instructions) :
        /\ ~from_val_of(instructions[i]).continue
        /\ IsSome(from_val_of(instructions[i]).from_val)
        /\ instructions[i].kind \notin {"COPY", "ADD"}

\* The ports of the last EXPOSE alone.
ExtractPortsLast(instructions) ==
    LET ex == {j \in 1..Len(instructions) : instructions[j].kind = "EXPOSE"}
    IN IF ex = {} THEN {}
       ELSE Range(instructions[CHOOSE j \in ex : \A k \in ex : k <= j].arguments)

\* extract_ports: all_ports.append(&mut ports) for the ports of every EXPOSE,
\* each port as the parser gives it.
extract_ports(instructions) ==
    UNION { Range(instructions[i].arguments) :
              i \in {j \in 1..Len(instructions) : instructions[j].kind = "EXPOSE"} }

\* A match that counts a variant it does not name under "unknown".
KindNameUnknown(instr) ==
    CASE instr.kind = "ADD" -> ADD
      [] instr.kind = "ARG" -> ARG
      [] instr.kind = "COPY" -> COPY
      [] instr.kind = "ENV" -> ENV
      [] instr.kind = "EXPOSE" -> EXPOSE
      [] instr.kind = "FROM" -> FROM_UC
      [] instr.kind = "LABEL" -> LABEL
      [] instr.kind = "RUN" -> RUN
      [] OTHER -> "unknown"

\* let s = match ins { ... }: the name an instruction is counted under.
kind_name(instr) ==
    CASE instr.kind = "ADD" -> ADD
      [] instr.kind = "ARG" -> ARG
      [] instr.kind = "COPY" -> COPY
      [] instr.kind = "ENV" -> ENV
      [] instr.kind = "EXPOSE" -> EXPOSE
      [] instr.kind = "FROM" -> FROM_UC
      [] instr.kind = "LABEL" -> LABEL
      [] instr.kind = "RUN" -> RUN
      [] OTHER -> ""

\* extract_instructions: *by_type.entry(s).or_insert(0) += 1 for every
\* instruction, and total_count the length of the sequence.
extract_instructions(instructions) ==
    LET names == {kind_name(instructions[i]) : i \in 1..Len(instructions)}
    IN [ total_count |-> Len(instructions),
         by_type |->
             [k \in names |->
                 Cardinality({i \in 1..Len(instructions) :
                                 kind_name(instructions[i]) = k})] ]

RECURSIVE hash_iter(_)
\* HashMap::into_iter: the entries of m in the order of the hash keys.
hash_iter(m) ==
    IF m = {} THEN <<>>
    ELSE LET e == CHOOSE x \in m :
                      \A y \in m : x = y \/ (IF seed = FirstSeed THEN StrLess(x[1], y[1])
                                                                 ELSE StrLess(y[1], x[1]))
         IN <<e>> \o hash_iter(m \ {e})

\* A merge that keeps the entry m has for a key of m2.
ExtendKeepFirst(m, m2) == m \cup {p \in m2 : \A q \in m : q[1] # p[1]}

\* HashMap::extend: the entries of m2, as m2 hands them out, are inserted
\* into m one after the other.
extend(m, m2) ==
    LET q == hash_iter(m2)
        F[n \in 0..Len(q)] ==
            IF n = 0 THEN m ELSE insert(F[n - 1], q[n][1], q[n][2])
    IN F[Len(q)]

\* extract_key_value_pairs: the mappings of the instructions of one kind,
\* merged in file order.
extract_key_value_pairs(instructions) ==
    LET merged(k, decode(_)) ==
            LET M[n \in 0..Len(instructions)] ==
                    IF n = 0 THEN {}
                    ELSE IF instructions[n].kind = k
                         THEN extend(M[n - 1], decode(instructions[n].arguments))
                         ELSE M[n - 1]
            IN M[Len(instructions)]
    IN [ args |-> merged("ARG", parse_kv_instruction_opt_val),
         labels |-> merged("LABEL", parse_kv_instruction),
         env_vars |-> merged("ENV", parse_kv_instruction) ]

\* analyze_dockerfile, after a successful parse.
analysis_of(d) ==
    LET st == stages(d)
        num_stages == Len(st)
        si == extract_stage_info(st)
        fr == extract_from_references(d)
        multistage_analysis ==
            analyze_multistage(num_stages, si.images, si.stage_names,
                               fr.copy_from_stages, fr.add_from_stages)
        kv_pairs == extract_key_value_pairs(d)
    IN [ num_stages |-> num_stages,
         images |-> get_parsed_images(si.images),
         stage_names |-> BTreeIter(si.stage_names),
         copy_from_stages |-> BTreeIter(fr.copy_from_stages),
         add_from_stages |-> BTreeIter(fr.add_from_stages),
         multistage_analysis |-> multistage_analysis,
         exposed_ports |-> BTreeIter(extract_ports(d)),
         instructions |-> extract_instructions(d),
         args |-> kv_pairs.args,
         labels |-> kv_pairs.labels,
         env_vars |-> kv_pairs.env_vars ]

\* The analysis of d runs into an unreachable!() arm: in the fold of an ARG,
\* LABEL or ENV instruction, or in extract_from_references.
panics(d) ==
    \/ \E i \in 1..Len(d) :
          /\ d[i].kind \in {"ARG", "LABEL", "ENV"}
          /\ fold_unreachable(extract_tokens_from_instr(d[i].arguments))
    \/ target_unreachable(d)

\* What the caller of the binding gets when the core panics.
PanicException == [panic_exception |-> TRUE]

NoReport == [none |-> TRUE]

\* A binding layer that raises one fixed text for every error.
NewErrGeneric(e) == [value_error |-> <<"invalid">>]

\* lib.rs: Err(e) => Err(PyValueError::new_err(e.to_string()))
new_err(e) == [value_error |-> to_string(e)]

\* lib.rs: Ok(res) => Ok(res)
py_ok(r) == [ok |-> r]

\* The binding's analyze_dockerfile on an input the parser accepts: the core
\* returns Ok(Analysis), handed on as it is, unless it panics on the way.
Analyze ==
    /\ pc = "parsed"
    /\ parse_accepts(df)
    /\ IF panics(df)
       THEN /\ report' = NoReport
            /\ err' = None
            /\ py' = PanicException
            /\ pc' = "panicked"
       ELSE /\ report' = analysis_of(df)
            /\ err' = None
            /\ py' = py_ok(report')
            /\ pc' = "done"
    /\ seed' = next_seed(seed)
    /\ UNCHANGED <<df, decoderVars>>

\* The binding's analyze_dockerfile on an input the parser rejects: in the
\* core parse(body)? returns the parser's Err, which the binding raises.
Reject ==
    /\ pc = "parsed"
    /\ ~parse_accepts(df)
    /\ report' = NoReport
    /\ err' = parse_error(df)
    /\ py' = new_err(err'.some)
    /\ pc' = "error"
    /\ seed' = next_seed(seed)
    /\ UNCHANGED <<df, decoderVars>>

\* One more call of the binding's analyze_dockerfile on the same text, with
\* the hash keys the calls before have left.
Rerun ==
    /\ pc \in {"done", "error", "panicked"}
    /\ IF parse_accepts(df) /\ panics(df)
       THEN /\ report' = NoReport
            /\ err' = None
            /\ py' = PanicException
            /\ pc' = "panicked"
       ELSE IF parse_accepts(df)
       THEN /\ report' = analysis_of(df)
            /\ err' = None
            /\ py' = py_ok(report')
            /\ pc' = "done"
       ELSE /\ report' = NoReport
            /\ err' = parse_error(df)
            /\ py' = new_err(err'.some)
            /\ pc' = "error"
    /\ seed' = next_seed(seed)
    /\ UNCHANGED <<df, decoderVars>>

DecoderIdle ==
    /\ ins = <<>> /\ form = "idle" /\ key = <<>> /\ val = <<>>
    /\ res = {} /\ res_opt = {} /\ done = {}

Init ==
    /\ df \in Dockerfiles
    /\ pc = "parsed"
    /\ report = NoReport
    /\ err = None
    /\ py = None
    /\ seed = FirstSeed
    /\ DecoderIdle

Next == Analyze \/ Reject

Spec == Init /\ [][Next]_vars

\* The analysis called again and again on one text.
NextRuns == Analyze \/ Reject \/ Rerun

SpecRuns == Init /\ [][NextRuns]_vars

(***************************************************************************)
(* The decoder on its own: a text is drawn, then the two entry points are  *)
(* applied to it.                                                          *)
(***************************************************************************)

\* The keys and values the written forms are made of.
Keys == {<<"K">>, <<"k">>, <<"e", "n", "v">>, <<"E", "N", "V">>}
Vals ==
    { <<"V">>, <<"a", "=", "b">>, <<"e", "n", "v">>, <<"a", " ", "b">>,
      <<"=", "V">>, <<"V", "=">> }

\* A value written as one shell word: in double quotes when it holds a blank.
Written(v) == IF " " \in Range(v) THEN <<"\"">> \o v \o <<"\"">> ELSE v

\* The text of a form: "equals" is K=V, "space" is K V, "three" is K = V,
\* "bare" is K, "empty" is K= .
Render(f, k, v) ==
    CASE f = "equals" -> k \o <<"=">> \o Written(v)
      [] f = "space" -> k \o <<" ">> \o Written(v)
      [] f = "three" -> k \o <<" ", "=", " ">> \o Written(v)
      [] f = "bare" -> k
      [] f = "empty" -> k \o <<"=">>

\* The raw words free texts are made of.
Words ==
    { <<"K">>, <<"V">>, <<"K", "=", "a">>, <<"K", "=", "b">>, <<"k", "=", "V">>,
      <<"K", "=">>, <<"=", "V">>, <<"=">>, <<"V", "=", "a", "=", "b">>,
      <<"e", "n", "v">>, <<"E", "n", "v">>, <<"\"", "\"">>, <<"\"", "a">>,
      <<"\r">>, <<"#", "a">>, <<"=", "=">> }

\* The most words in a free text.
MaxWords == 3

RECURSIVE Join(_)
\* The words of ws, one blank between two of them.
Join(ws) ==
    IF Len(ws) = 0 THEN <<>>
    ELSE IF Len(ws) = 1 THEN ws[1]
    ELSE ws[1] \o <<" ">> \o Join(Tail(ws))

FreeTexts == {Join(ws) : ws \in UNION {[1..n -> Words] : n \in 0..MaxWords}}

AnalyzerIdle ==
    /\ df = <<>> /\ pc = "idle" /\ report = NoReport /\ err = None /\ py = None
    /\ seed = FirstSeed

InitKV ==
    /\ AnalyzerIdle
    /\ \/ /\ form \in {"equals", "space", "three"}
          /\ key \in Keys
          /\ val \in Vals
       \/ /\ form \in {"bare", "empty"}
          /\ key \in Keys
          /\ val = <<>>
    /\ ins = Render(form, key, val)
    /\ res = {} /\ res_opt = {} /\ done = {}

InitFree ==
    /\ AnalyzerIdle
    /\ form = "free" /\ key = <<>> /\ val = <<>>
    /\ ins \in FreeTexts
    /\ res = {} /\ res_opt = {} /\ done = {}

\* parse_kv_instruction(ins): the ENV and LABEL entry point.
ParseKv ==
    /\ form # "idle"
    /\ "env" \notin done
    /\ res' = parse_kv_instruction(ins)
    /\ done' = done \cup {"env"}
    /\ UNCHANGED <<ins, form, key, val, res_opt, analyzerVars>>

\* parse_kv_instruction_opt_val(ins): the ARG entry point.
ParseKvOptVal ==
    /\ form # "idle"
    /\ "arg" \notin done
    /\ res_opt' = parse_kv_instruction_opt_val(ins)
    /\ done' = done \cup {"arg"}
    /\ UNCHANGED <<ins, form, key, val, res, analyzerVars>>

NextKV == ParseKv \/ ParseKvOptVal

SpecKV == (InitKV \/ InitFree) /\ [][NextKV]_vars

(***************************************************************************)
(* Properties of the multistage analysis                                   *)
(***************************************************************************)

Done == pc = "done"
ms == report.multistage_analysis
UsedOfReport ==
    Range(ms.stages_used_as_base_images)
        \cup Range(ms.stages_copied_from)
        \cup Range(ms.stages_added_from)

\* C1 (partition law): in every report, unused_stages shares no entry with
\* stages_used_as_base_images, stages_copied_from and stages_added_from, and
\* the four lists together hold exactly the entries of stage_names.
C1_PartitionLaw ==
    Done =>
        /\ Range(ms.unused_stages) \cap UsedOfReport = {}
        /\ Range(ms.unused_stages) \cup UsedOfReport = Range(report.stage_names)

\* A report with a used and an unused alias.
C1_Witness ==
    /\ Done
    /\ Range(ms.unused_stages) # {}
    /\ UsedOfReport # {}

\* The aliases declared in df, and whether an alias is referred to by a
\* base image, a COPY --from or an ADD --from of df (the comparison is the
\* code's: both sides case-folded, a '$' image verbatim).
AliasesOf(d) ==
    {d[i].as_.some : i \in {j \in 1..Len(d) : d[j].kind = "FROM" /\ IsSome(d[j].as_)}}
RefersTo(d, i, a) ==
    \/ /\ d[i].kind = "FROM"
       /\ image_text(d[i].image) = to_lowercase(a)
    \/ /\ d[i].kind \in {"COPY", "ADD"}
       /\ \E k \in 1..Len(d[i].options) :
            /\ d[i].options[k].name = "from"
            /\ IsSome(d[i].options[k].value)
            /\ \A j \in 1..(k - 1) :
                 ~(d[i].options[j].name = "from" /\ IsSome(d[i].options[j].value))
            /\ to_lowercase(d[i].options[k].value.some) = to_lowercase(a)
AliasUsed(d) == \E a \in AliasesOf(d) : \E i \in 1..Len(d) : RefersTo(d, i, a)
NumFrom(d) == Cardinality({i \in 1..Len(d) : d[i].kind = "FROM"})
\* The stage an instruction belongs to: the number of FROMs up to it.
StageOf(d, i) == Cardinality({j \in 1..i : d[j].kind = "FROM"})

\* C2: is_multistage is true exactly when the file has at least two stages
\* and some alias is used as a base image, a COPY --from value or an ADD
\* --from value; so it is false for two or more stages none of whose aliases
\* is used, and for every single-stage file.
C2_MultistageDefinition ==
    Done => (ms.is_multistage <=> (NumFrom(df) >= 2 /\ AliasUsed(df)))

\* Two or more stages, an alias declared, none used: not multistage.
C2_Witness ==
    /\ Done
    /\ NumFrom(df) >= 2
    /\ AliasesOf(df) # {}
    /\ ~AliasUsed(df)
    /\ ~ms.is_multistage

\* C3: whenever is_multistage is true there are two distinct stages s and t
\* such that the base image of t, or a COPY/ADD --from inside t, names the
\* alias of s.
C3_CrossStageDependency ==
    (Done /\ ms.is_multistage) =>
        \E i, j \in 1..Len(df) :
            /\ df[i].kind = "FROM"
            /\ IsSome(df[i].as_)
            /\ StageOf(df, j) # StageOf(df, i)
            /\ RefersTo(df, j, df[i].as_.some)

ImagesOfReport == {report.images[i].full : i \in 1..Len(report.images)}

\* C4: stages_used_as_base_images, stages_copied_from and stages_added_from
\* hold exactly the entries of stage_names that are also in images, in
\* copy_from_stages and in add_from_stages, and unused_stages the entries of
\* stage_names in none of the three.
C4_ExactIntersections ==
    Done =>
        /\ Range(ms.stages_used_as_base_images)
              = Range(report.stage_names) \cap ImagesOfReport
        /\ Range(ms.stages_copied_from)
              = Range(report.stage_names) \cap Range(report.copy_from_stages)
        /\ Range(ms.stages_added_from)
              = Range(report.stage_names) \cap Range(report.add_from_stages)
        /\ Range(ms.unused_stages)
              = Range(report.stage_names)
                  \ (ImagesOfReport \cup Range(report.copy_from_stages)
                        \cup Range(report.add_from_stages))

\* One alias in all three used lists.
C4_Witness ==
    /\ Done
    /\ Range(ms.stages_used_as_base_images) \cap Range(ms.stages_copied_from)
          \cap Range(ms.stages_added_from) # {}

StrictlyAscending(q) == \A i \in 1..(Len(q) - 1) : StrLess(q[i], q[i + 1])

\* C5 (sortedness): in every report images (by full text), stage_names,
\* copy_from_stages, add_from_stages, exposed_ports and the four lists of
\* multistage_analysis are strictly ascending in string order, so none holds
\* an entry twice.
C5_Sortedness ==
    Done =>
        /\ StrictlyAscending([i \in 1..Len(report.images) |-> report.images[i].full])
        /\ StrictlyAscending(report.stage_names)
        /\ StrictlyAscending(report.copy_from_stages)
        /\ StrictlyAscending(report.add_from_stages)
        /\ StrictlyAscending(report.exposed_ports)
        /\ StrictlyAscending(ms.stages_used_as_base_images)
        /\ StrictlyAscending(ms.stages_copied_from)
        /\ StrictlyAscending(ms.stages_added_from)
        /\ StrictlyAscending(ms.unused_stages)

\* A report with several ports, images and aliases, given out of order.
C5_Witness ==
    /\ Done
    /\ Len(report.exposed_ports) >= 3
    /\ Len(report.images) >= 2
    /\ Len(report.stage_names) >= 2

(***************************************************************************)
(* Properties of the report as a whole                                     *)
(***************************************************************************)

Returned == pc \in {"done", "error"}
HasUnknownKeyword(d) == \E i \in 1..Len(d) : d[i].kind = "?"
DuplicateAlias(d) ==
    \E i, j \in 1..Len(d) :
        /\ i < j
        /\ d[i].kind = "FROM" /\ d[j].kind = "FROM"
        /\ IsSome(d[i].as_) /\ IsSome(d[j].as_)
        /\ d[i].as_.some = d[j].as_.some

\* C11: a text with an unknown instruction keyword, with two stages of one
\* alias, or with no instruction at all is rejected; whenever the analysis
\* fails the parser has rejected the text, the error is the parser's, there
\* is no report, and the binding layer raises the text of that error; and
\* whenever the parser accepts there is a report and no error.
C11_ParseFailureOnly ==
    Returned =>
        /\ (HasUnknownKeyword(df) \/ DuplicateAlias(df) \/ Len(df) = 0)
              => pc = "error"
        /\ pc = "error" =>
              /\ ~parse_accepts(df)
              /\ report = NoReport
              /\ err = parse_error(df)
              /\ py = [value_error |-> to_string(parse_error(df).some)]
        /\ pc = "done" =>
              /\ parse_accepts(df)
              /\ err = None
              /\ report # NoReport
              /\ py = [ok |-> report]

\* A text of three lines with one alias declared twice, rejected with the
\* parser's duplicate-name message.
C11_Witness ==
    /\ pc = "error"
    /\ Len(df) = 3
    /\ DuplicateAlias(df)
    /\ py.value_error[1] = "duplicate name"

\* An ARG, ENV or LABEL instruction whose argument text shlex cannot split,
\* and the instructions of d without those.
Malformed(i) ==
    /\ i.kind \in {"ARG", "ENV", "LABEL"}
    /\ ~IsSome(shlex_split(i.arguments))
WellFormed(i) == ~Malformed(i)
WithoutMalformed(d) == SelectSeq(d, WellFormed)

\* C12 (graceful degradation): every text the parser accepts gets a report;
\* an ARG, ENV or LABEL instruction with malformed quoting is decoded to the
\* empty mapping, and args, labels and env_vars are what the same
\* instructions without the malformed ones give.
C12_GracefulDegradation ==
    Returned =>
        /\ parse_accepts(df) => (pc = "done" /\ report # NoReport)
        /\ Done =>
              /\ \A i \in 1..Len(df) :
                    Malformed(df[i]) =>
                        /\ parse_kv_instruction(df[i].arguments) = {}
                        /\ parse_kv_instruction_opt_val(df[i].arguments) = {}
              /\ report.args = extract_key_value_pairs(WithoutMalformed(df)).args
              /\ report.labels = extract_key_value_pairs(WithoutMalformed(df)).labels
              /\ report.env_vars = extract_key_value_pairs(WithoutMalformed(df)).env_vars

\* An ENV with a quote left open after a well-formed ENV: the report holds
\* the entry of the well-formed one alone.
C12_Witness ==
    /\ Done
    /\ \E i, j \in 1..Len(df) :
          /\ i < j
          /\ df[i].kind = "ENV" /\ ~Malformed(df[i])
          /\ df[j].kind = "ENV" /\ Malformed(df[j])
    /\ report.env_vars = {<<<<"K">>, <<"a">>>>, <<<<"k">>, <<"b">>>>}

\* Flag k of the instruction is named "from" and has a value, and no flag
\* before it is and has.
FirstFrom(instr, k) ==
    /\ instr.options[k].name = "from"
    /\ IsSome(instr.options[k].value)
    /\ \A j \in 1..(k - 1) :
          ~(instr.options[j].name = "from" /\ IsSome(instr.options[j].value))
\* The from-references of the instructions of one kind, case-folded.
FirstFromValues(d, kind) ==
    UNION { {to_lowercase(d[i].options[k].value.some) :
                k \in {n \in 1..Len(d[i].options) : FirstFrom(d[i], n)}} :
            i \in {j \in 1..Len(d) : d[j].kind = kind} }

\* C13 (flag precedence): copy_from_stages holds, for every COPY, the value
\* of its first flag named exactly "from" that has a value, and nothing
\* else; add_from_stages the same for every ADD.  A "from" flag without a
\* value, a flag of another name and a later "from" flag add nothing.
C13_FlagPrecedence ==
    Done =>
        /\ Range(report.copy_from_stages) = FirstFromValues(df, "COPY")
        /\ Range(report.add_from_stages) = FirstFromValues(df, "ADD")

\* A COPY with --from (no value), --from=B, --from=a and nothing else that
\* refers to a stage: "b" alone is recorded, and for COPY alone.
C13_Witness ==
    /\ Done
    /\ \E i \in 1..Len(df) :
          /\ df[i].kind = "COPY"
          /\ Len(df[i].options) = 3
          /\ df[i].options[1].value = None
          /\ df[i].options[3].name = "from"
    /\ report.copy_from_stages = <<<<"b">>>>
    /\ report.add_from_stages = <<>>

IsLower(x) == to_lowercase(x) = x
SameIgnoringCase(x, y) == to_lowercase(x) = to_lowercase(y)
FromLines(d) == {i \in 1..Len(d) : d[i].kind = "FROM"}

RECURSIVE SumOver(_, _)
\* The sum of the values of f over the keys in S.
SumOver(f, S) ==
    IF S = {} THEN 0
    ELSE LET k == CHOOSE k \in S : TRUE IN f[k] + SumOver(f, S \ {k})
CountKind(d, k) == Cardinality({i \in 1..Len(d) : d[i].kind = k})
Counted(k) ==
    IF k \in DOMAIN report.instructions.by_type
    THEN report.instructions.by_type[k] ELSE 0
KnownKinds == {"ADD", "ARG", "COPY", "ENV", "EXPOSE", "FROM", "LABEL", "RUN"}

\* C15 (instruction counting): total_count is the number of instructions,
\* the values of by_type sum to it and each is at least 1, an instruction of
\* a kind the code names is counted under the upper-case name of its kind,
\* and an instruction of any other kind under the empty string.
C15_InstructionCounting ==
    Done =>
        LET by_type == report.instructions.by_type IN
        /\ report.instructions.total_count = Len(df)
        /\ SumOver(by_type, DOMAIN by_type) = report.instructions.total_count
        /\ \A k \in DOMAIN by_type : by_type[k] >= 1
        /\ \A k \in KnownKinds : Counted(k) = CountKind(df, k)
        /\ Counted("") = Cardinality({i \in 1..Len(df) : df[i].kind \notin KnownKinds})
        /\ DOMAIN by_type \subseteq KnownKinds \cup {""}

\* Two FROMs and an instruction of a kind the code does not name.
C15_Witness ==
    /\ Done
    /\ CountKind(df, "OTHER") = 1
    /\ report.instructions.total_count = 3
    /\ report.instructions.by_type = [k \in {"FROM", ""} |-> IF k = "" THEN 1 ELSE 2]

ExposeLines(d) == {i \in 1..Len(d) : d[i].kind = "EXPOSE"}
PortLiterals(d) ==
    UNION { {d[i].arguments[k] : k \in 1..Len(d[i].arguments)} : i \in ExposeLines(d) }
ExposeExample ==
    <<ExposeInstr(<<<<"8", "0">>>>),
      ExposeInstr(<<<<"8", "0", "8", "0">>, <<"8", "4", "4", "3">>>>)>>

\* C16 (port accumulation): exposed_ports holds every port literal of every
\* EXPOSE of the file as it is written and nothing else, each once, in
\* ascending string order; EXPOSE 80 followed by EXPOSE 8080 8443 gives
\* ["80", "8080", "8443"].
C16_PortAccumulation ==
    Done =>
        /\ Range(report.exposed_ports) = PortLiterals(df)
        /\ Len(report.exposed_ports) = Cardinality(PortLiterals(df))
        /\ StrictlyAscending(report.exposed_ports)
        /\ SelectSeq(df, LAMBDA i : i.kind = "EXPOSE") = ExposeExample
              => report.exposed_ports =
                    <<<<"8", "0">>, <<"8", "0", "8", "0">>, <<"8", "4", "4", "3">>>>

\* The example of the claim: a FROM, EXPOSE 80 and EXPOSE 8080 8443.
C16_Witness ==
    /\ Done
    /\ Len(df) = 3
    /\ SubSeq(df, 2, 3) = ExposeExample
    /\ report.exposed_ports =
          <<<<"8", "0">>, <<"8", "0", "8", "0">>, <<"8", "4", "4", "3">>>>

\* Scenario A: two stages, the first with an alias and the second without;
\* the second holds a COPY whose --from names that alias, and no COPY of the
\* file names anything else.
ScenarioA(d) ==
    /\ NumFrom(d) = 2
    /\ LET st == stages(d)
           build == st[1].from.as_
       IN /\ IsSome(build)
          /\ ~IsSome(st[2].from.as_)
          /\ \E i \in (st[2].at + 1)..Len(d) :
                /\ d[i].kind = "COPY"
                /\ IsSome(get_from_flag_val(d[i]))
          /\ \A i \in 1..Len(d) :
                (d[i].kind = "COPY" /\ IsSome(get_from_flag_val(d[i])))
                    => SameIgnoringCase(get_from_flag_val(d[i]).some, build.some)
ScenarioAlias(d) == to_lowercase(stages(d)[1].from.as_.some)

\* C17 (end-to-end scenario A): for two stages of which the first has the
\* alias build and the second has none and holds COPY --from=build, the
\* report has stage_names = [build], copy_from_stages = [build],
\* is_multistage = true, stages_copied_from = [build] and unused_stages = [].
C17_ScenarioA ==
    (Done /\ ScenarioA(df)) =>
        /\ report.num_stages = 2
        /\ report.stage_names = <<ScenarioAlias(df)>>
        /\ report.copy_from_stages = <<ScenarioAlias(df)>>
        /\ ms.is_multistage
        /\ ms.stages_copied_from = <<ScenarioAlias(df)>>
        /\ ms.unused_stages = <<>>

\* The scenario with the alias a: FROM u AS a, FROM u, COPY --from=a.
C17_Witness ==
    /\ Done
    /\ ScenarioA(df)
    /\ df[1] = FromInstr(<<"u">>, Some(<<"a">>))
    /\ df[2] = FromInstr(<<"u">>, None)
    /\ report.stage_names = <<<<"a">>>>
    /\ report.copy_from_stages = <<<<"a">>>>
    /\ ms.is_multistage
    /\ ms.stages_copied_from = <<<<"a">>>>
    /\ ms.unused_stages = <<>>

\* The base-image expressions of the stages, case-folded unless they begin
\* with '$'.
ImageExpressions(d) ==
    {IF d[i].image[1] = "$" THEN d[i].image ELSE to_lowercase(d[i].image) :
        i \in FromLines(d)}

C19_Determinism ==
    [][Returned => (pc' = pc /\ report' = report /\ err' = err /\ py' = py)]_vars

\* A second call has returned (the hash keys are the first ones again) on a
\* text with an ENV of two entries, which the two calls took out of the
\* decoded map in different orders.
C19_Witness ==
    /\ Done
    /\ seed = FirstSeed
    /\ Cardinality(report.env_vars) = 2
    /\ Len(report.exposed_ports) >= 2

(***************************************************************************)
(* Properties of the key/value decoder                                     *)
(***************************************************************************)

EnvDone == "env" \in done
ArgDone == "arg" \in done
Toks == extract_tokens_from_instr(ins)
KeysOf(m) == {p[1] : p \in m}
\* The positions of the keys in a token sequence, and the position of the
\* last occurrence of each key.
KeyPos(t) == {i \in 1..Len(t) : i % 2 = 1}
LastPos(t) == {i \in KeyPos(t) : \A j \in KeyPos(t) : j > i => t[j] # t[i]}

\* C6 (key/value equivalence): for every key K and value V written as one
\* shell word, the text K=V and the text K V are both decoded to exactly the
\* mapping {K: V}, by either entry point.
C6_KeyValueEquivalence ==
    (form \in {"equals", "space"}) =>
        /\ EnvDone => res = {<<key, val>>}
        /\ ArgDone => res_opt = {<<key, Some(val)>>}

C8_ExplicitEmptyDefault ==
    (form = "empty" /\ ArgDone) =>
        /\ res_opt = {<<key, Some(<<>>)>>}
        /\ res_opt # parse_kv_instruction_opt_val(Render("bare", key, <<>>))

\* C9: in the ENV/LABEL entry point the text K= yields {K: ""}, for every
\* key K.
C9_EmptyValue ==
    (form = "empty" /\ EnvDone) => res = {<<key, <<>>>>}

\* K= decoded by the ENV/LABEL entry point, for a key that is also a keyword.
C9_Witness ==
    /\ form = "empty"
    /\ EnvDone
    /\ key = <<"E", "N", "V">>
    /\ res = {<<key, <<>>>>}

TwoWrites == <<"K", "=", "a", " ", "K", "=", "b">>

\* C10 (last write wins inside one instruction): the mapping holds each key
\* of the text once, mapped to the value of the key's last occurrence, in
\* both entry points; "K=a K=b" yields {K: "b"}.
C10_LastWriteWins ==
    LET t == Toks IN
    /\ EnvDone =>
          /\ \A p, q \in res : p[1] = q[1] => p = q
          /\ KeysOf(res) = {t[i] : i \in KeyPos(t)}
          /\ \A i \in LastPos(t) :
                <<t[i], IF i < Len(t) THEN t[i + 1] ELSE <<>>>> \in res
          /\ ins = TwoWrites => res = {<<<<"K">>, <<"b">>>>}
    /\ ArgDone =>
          /\ \A p, q \in res_opt : p[1] = q[1] => p = q
          /\ KeysOf(res_opt) = {t[i] : i \in KeyPos(t)}
          /\ \A i \in LastPos(t) :
                <<t[i], IF i < Len(t) THEN Some(t[i + 1]) ELSE None>> \in res_opt
          /\ ins = TwoWrites => res_opt = {<<<<"K">>, Some(<<"b">>)>>}

\* "K=a K=b" decoded: the second value is the one kept.
C10_Witness ==
    /\ ins = TwoWrites
    /\ EnvDone
    /\ res = {<<<<"K">>, <<"b">>>>}

\* The raw tokens the loop of extract_tokens_from_instr runs over, and the
\* raw tokens whose prefix it emits because they end with '='.
RawToks ==
    LET sp == shlex_split(ins) IN IF IsSome(sp) THEN SelectSeq(sp.some, retain) ELSE <<>>
TrailingEquals(tok) ==
    /\ ends_with(tok, "=")
    /\ ~starts_with(tok, "=")
    /\ Len(tok) > 1

\* C20 (trailing '='): a raw token that ends with '=' and is more than "="
\* is emitted as its prefix, and the raw token after it is emitted as it is,
\* as one output token, whatever it holds.
C20_TrailingEquals ==
    (EnvDone \/ ArgDone) =>
        LET raw == RawToks IN
        \A n \in 2..Len(raw) :
            TrailingEquals(raw[n - 1]) =>
                /\ push_of(raw[n - 1], IF n = 2 THEN None ELSE Some(raw[n - 2]))
                      = <<SubSeq(raw[n - 1], 1, Len(raw[n - 1]) - 1)>>
                /\ push_of(raw[n], Some(raw[n - 1])) = <<raw[n]>>
                /\ Len(raw) = 2 => Toks = <<SubSeq(raw[1], 1, Len(raw[1]) - 1), raw[2]>>

\* C21 (three-word form): for every key K and value V the text K = V is
\* decoded to exactly {K: V}, V as it is written also when it holds '=', and
\* the lone "=" gives no output token.
C21_ThreeWordForm ==
    form = "three" =>
        /\ (EnvDone \/ ArgDone) => Toks = <<key, val>>
        /\ EnvDone => res = {<<key, val>>}
        /\ ArgDone => res_opt = {<<key, Some(val)>>}

\* The equals-sign step on a sequence of raw tokens.
Processed(raw) ==
    LET P[n \in 0..Len(raw)] ==
            IF n = 0 THEN <<>>
            ELSE P[n - 1] \o push_of(raw[n], IF n = 1 THEN None ELSE Some(raw[n - 1]))
    IN P[Len(raw)]
\* The tokens the noise step keeps when only the keyword of the instruction
\* being decoded, the empty token and the bare carriage return are noise.
KeptInArg(s) == s # <<>> /\ to_lowercase(s) # ARG_LC /\ s # <<"\r">>
KeptInEnv(s) == s # <<>> /\ to_lowercase(s) # ENV_LC /\ s # <<"\r">>
KeptInLabel(s) == s # <<>> /\ to_lowercase(s) # LABEL_LC /\ s # <<"\r">>

\* C22 (noise stripping): the decoder drops the tokens that equal the
\* keyword of the instruction being decoded whatever their letter case, the
\* empty tokens and the bare carriage returns, and no other token: the
\* result is that of the equals-sign step and the fold on the tokens left,
\* for ARG, for ENV and for LABEL.
C22_NoiseStripping ==
    LET sp == shlex_split(ins) IN
    IsSome(sp) =>
        /\ ArgDone =>
              res_opt = vec_to_map_opt_val(Processed(SelectSeq(sp.some, KeptInArg)))
        /\ EnvDone =>
              /\ res = vec_to_map(Processed(SelectSeq(sp.some, KeptInEnv)))
              /\ res = vec_to_map(Processed(SelectSeq(sp.some, KeptInLabel)))

\* A raw token with '=' inside only, after a token that does not end with '='.
SplitCase(tok, prev) ==
    /\ EQUALS \in Range(tok)
    /\ ~starts_with(tok, EQUALS)
    /\ ~ends_with(tok, EQUALS)
    /\ ~(IsSome(prev) /\ ends_with(prev.some, EQUALS))
ManyEquals == <<"V", "=", "a", "=", "b">>

\* C23 (split on the first '=' only): a raw token with '=' inside, that
\* neither starts nor ends with '=' and does not follow a token ending in
\* '=', is emitted as two tokens, the part before its first '=' (which holds
\* no '=') and all the rest after that '='; a raw token without '=' is
\* emitted as it is; "V=a=b" is decoded to {V: "a=b"}.
C23_SplitOnFirstEquals ==
    (EnvDone \/ ArgDone) =>
        LET raw == RawToks IN
        /\ \A n \in 1..Len(raw) :
              LET prev == IF n = 1 THEN None ELSE Some(raw[n - 1])
                  out == push_of(raw[n], prev)
              IN /\ SplitCase(raw[n], prev) =>
                       /\ Len(out) = 2
                       /\ out[1] \o <<EQUALS>> \o out[2] = raw[n]
                       /\ EQUALS \notin Range(out[1])
                 /\ EQUALS \notin Range(raw[n]) => out = <<raw[n]>>
        /\ (Len(raw) = 1 /\ SplitCase(raw[1], None)) =>
              /\ Len(Toks) = 2 /\ EQUALS \notin Range(Toks[1])
              /\ Toks[1] \o <<EQUALS>> \o Toks[2] = raw[1]
              /\ EnvDone => res = {<<Toks[1], Toks[2]>>}
              /\ ArgDone => res_opt = {<<Toks[1], Some(Toks[2])>>}
        /\ (ins = ManyEquals /\ EnvDone) => res = {<<<<"V">>, <<"a", "=", "b">>>>}
C23_Witness ==
    /\ EnvDone /\ ArgDone
    /\ ins = ManyEquals
    /\ res = {<<<<"V">>, <<"a", "=", "b">>>>}
    /\ res_opt = {<<<<"V">>, Some(<<"a", "=", "b">>)>>}

\* C25 (empty quoted value in space form): in a text of words without '='
\* the ENV and LABEL entry point maps a key followed by the empty quoted
\* string to the empty string wherever the pair stands, and decodes the words
\* after the pair as they are on their own.
C25_EmptyQuotedValue ==
    LET sp == shlex_split(ins) IN
    (IsSome(sp) /\ \A n \in 1..Len(sp.some) : EQUALS \notin Range(sp.some[n])) =>
        \A n \in 1..Len(sp.some) :
            (n % 2 = 0 /\ sp.some[n] = <<>> /\ retain(sp.some[n - 1])
                 /\ \A j \in 1..(n - 2) : retain(sp.some[j])) =>
                LET rest == SubSeq(sp.some, n + 1, Len(sp.some))
                    later == SelectSeq(rest, retain)
                IN EnvDone =>
                       /\ (\A j \in 1..Len(later) : j % 2 = 1 => later[j] # sp.some[n - 1])
                             => <<sp.some[n - 1], <<>>>> \in res
                       /\ vec_to_map(later) \subseteq res

DoubleEquals == <<"=", "=">>

\* C27 (no empty token): every token the decoder hands to the fold is a
\* non-empty string, whatever the text; so every key of a mapping is
\* non-empty, a value of the ARG entry point that is present is non-empty,
\* and a value of the ENV and LABEL entry point is the empty string only for
\* the key that stands last and alone.
C27_NoEmptyToken ==
    LET t == Toks IN
    /\ (EnvDone \/ ArgDone) => \A n \in 1..Len(t) : t[n] # <<>>
    /\ EnvDone =>
          \A p \in res :
              /\ p[1] # <<>>
              /\ p[2] = <<>> => (Len(t) % 2 = 1 /\ t[Len(t)] = p[1])
    /\ ArgDone =>
          \A p \in res_opt :
              /\ p[1] # <<>>
              /\ IsSome(p[2]) => p[2].some # <<>>
\* The text "==" decoded: one token "=", standing last and alone.
C27_Witness ==
    /\ EnvDone /\ ArgDone
    /\ ins = DoubleEquals
    /\ res = {<<<<"=">>, <<>>>>}
    /\ res_opt = {<<<<"=">>, None>>}

(***************************************************************************)
(* Properties of the stage names                                           *)
(***************************************************************************)

FoldedAliases(d) == {to_lowercase(a) : a \in AliasesOf(d)}
MultistageLists ==
    Range(ms.stages_used_as_base_images) \cup Range(ms.stages_copied_from)
        \cup Range(ms.stages_added_from) \cup Range(ms.unused_stages)
LastIsFrom(d) == Len(d) > 0 /\ d[Len(d)].kind = "FROM"

\* C26: the alias of a stage that no FROM, COPY --from and ADD --from of the
\* file refers to is in unused_stages, the alias of the last stage like any
\* other; stage_names and the four lists of multistage_analysis hold aliases
\* only, so a stage without alias stands in none of them.
C26_UnusedAndUnaliased ==
    Done =>
        /\ \A a \in AliasesOf(df) :
              (\A i \in 1..Len(df) : ~RefersTo(df, i, a))
                  => to_lowercase(a) \in Range(ms.unused_stages)
        /\ Range(report.stage_names) = FoldedAliases(df)
        /\ MultistageLists \subseteq FoldedAliases(df)
        /\ AliasesOf(df) = {} =>
              /\ report.stage_names = <<>>
              /\ MultistageLists = {}
\* A report of a text whose last stage has an alias nothing refers to, after
\* a stage without alias.
C26_Witness ==
    /\ Done
    /\ LastIsFrom(df)
    /\ IsSome(df[Len(df)].as_)
    /\ \A i \in 1..Len(df) : ~RefersTo(df, i, df[Len(df)].as_.some)
    /\ to_lowercase(df[Len(df)].as_.some) \in Range(ms.unused_stages)
    /\ \E i \in 1..Len(df) : df[i].kind = "FROM" /\ ~IsSome(df[i].as_)
    /\ Len(report.stage_names) = 1

\* The from-references of the file that are no alias of it.
ExternalRefs(d, kind) == FirstFromValues(d, kind) \ FoldedAliases(d)

\* C28: the four lists of multistage_analysis hold entries of stage_names
\* only, stages_copied_from entries of copy_from_stages only and
\* stages_added_from entries of add_from_stages only; a --from value that is
\* no alias of the file is in copy_from_stages or add_from_stages and in no
\* list of multistage_analysis, and a file in which no alias is referred to
\* is not multistage whatever its --from values.
C28_SubsetLaws ==
    Done =>
        /\ MultistageLists \subseteq Range(report.stage_names)
        /\ Range(ms.stages_copied_from) \subseteq Range(report.copy_from_stages)
        /\ Range(ms.stages_added_from) \subseteq Range(report.add_from_stages)
        /\ ExternalRefs(df, "COPY") \subseteq Range(report.copy_from_stages)
        /\ ExternalRefs(df, "ADD") \subseteq Range(report.add_from_stages)
        /\ (ExternalRefs(df, "COPY") \cup ExternalRefs(df, "ADD")) \cap MultistageLists = {}
        /\ ~AliasUsed(df) => ~ms.is_multistage
\* Two stages, one with an alias, and a COPY --from that names neither: the
\* value is recorded, the alias is unused and the file is not multistage.
C28_Witness ==
    /\ Done
    /\ NumFrom(df) = 2
    /\ AliasesOf(df) = {<<"a">>}
    /\ ExternalRefs(df, "COPY") = {<<"b">>}
    /\ report.copy_from_stages = <<<<"b">>>>
    /\ ms.stages_copied_from = <<>>
    /\ ms.unused_stages = <<<<"a">>>>
    /\ ~ms.is_multistage

AliasedStages(d) == {i \in FromLines(d) : IsSome(d[i].as_)}
UnaliasedStages(d) == {i \in FromLines(d) : ~IsSome(d[i].as_)}
DistinctAsWritten(d) ==
    \A i, j \in AliasedStages(d) : i # j => d[i].as_.some # d[j].as_.some

\* C29: when the aliases of the stages are pairwise distinct as they are
\* written, stage_names has one entry for each stage with an alias, so
\* num_stages less the length of stage_names is the number of stages without
\* alias.
C29_StageNameCount ==
    (Done /\ DistinctAsWritten(df)) =>
        /\ Len(report.stage_names) = Cardinality(AliasedStages(df))
        /\ report.num_stages - Len(report.stage_names)
              = Cardinality(UnaliasedStages(df))

(***************************************************************************)
(* Absence of panics                                                       *)
(***************************************************************************)

KvLines(d) == {i \in 1..Len(d) : d[i].kind \in {"ARG", "LABEL", "ENV"}}
ChunksOf(d, i) == chunks(extract_tokens_from_instr(d[i].arguments), 2)

\* C30 (no panic): no call of the analysis ends in a panic; on every text
\* the parser accepts, the fold of each ARG, LABEL and ENV instruction sees
\* chunks of one or two tokens only, a chunk of one token only as the last,
\* and a target set is selected for COPY and ADD instructions only.
C30_NoPanic ==
    /\ pc # "panicked"
    /\ py # PanicException
    /\ (pc # "parsed" /\ parse_accepts(df)) =>
          /\ Done
          /\ ~panics(df)
          /\ \A i \in KvLines(df) :
                LET ch == ChunksOf(df, i) IN
                \A c \in 1..Len(ch) :
                    /\ Len(ch[c]) \in {1, 2}
                    /\ Len(ch[c]) = 1 => c = Len(ch)
          /\ \A i \in 1..Len(df) :
                (~from_val_of(df[i]).continue /\ IsSome(from_val_of(df[i]).from_val))
                    => df[i].kind \in {"COPY", "ADD"}
\* A report of a text with a bare ARG (one chunk of one token) and a COPY or
\* an ADD with a --from value.
C30_Witness ==
    /\ Done
    /\ \E i \in KvLines(df) :
          LET ch == ChunksOf(df, i) IN Len(ch) = 1 /\ Len(ch[1]) = 1
    /\ \E i \in 1..Len(df) :
          ~from_val_of(df[i]).continue /\ IsSome(from_val_of(df[i]).from_val)
    /\ py = py_ok(report)

(***************************************************************************)
(* Properties of the file-wide mappings                                    *)
(***************************************************************************)

\* The mapping the instruction at line i of df is decoded to, the lines of
\* kind k that set key x, and the last of them.
DecodedAt(i) ==
    IF df[i].kind = "ARG" THEN parse_kv_instruction_opt_val(df[i].arguments)
    ELSE parse_kv_instruction(df[i].arguments)
Setters(k, x) ==
    {i \in 1..Len(df) : df[i].kind = k /\ \E p \in DecodedAt(i) : p[1] = x}
LastSetter(k, x) == LET S == Setters(k, x) IN CHOOSE i \in S : \A j \in S : j <= i
KeysSet(k) ==
    UNION {{p[1] : p \in DecodedAt(i)} : i \in {j \in 1..Len(df) : df[j].kind = k}}
MergedInFileOrder(m, k) ==
    /\ {p[1] : p \in m} = KeysSet(k)
    /\ \A p, q \in m : p[1] = q[1] => p = q
    /\ \A p \in m : p \in DecodedAt(LastSetter(k, p[1]))
ArgWithDefault == ArgInstr(<<"K", "=", "a">>)
ArgBare == ArgInstr(<<"K">>)

\* C24 (merging across instructions): args, labels and env_vars hold the
\* keys set by the ARG, the LABEL and the ENV instructions of the file, each
\* key once, with the value given by the last instruction of that kind that
\* sets the key, in whatever stage; a bare ARG K after ARG K=a leaves K
\* without default, and ARG K=a after a bare ARG K leaves the default.
C24_MergingAcrossInstructions ==
    Done =>
        /\ MergedInFileOrder(report.args, "ARG")
        /\ MergedInFileOrder(report.labels, "LABEL")
        /\ MergedInFileOrder(report.env_vars, "ENV")
        /\ \A i, j \in 1..Len(df) :
              (i < j /\ \A n \in (j + 1)..Len(df) : df[n].kind # "ARG") =>
                  /\ (df[i] = ArgWithDefault /\ df[j] = ArgBare)
                        => report.args = {<<<<"K">>, None>>}
                  /\ (df[i] = ArgBare /\ df[j] = ArgWithDefault)
                        => report.args = {<<<<"K">>, Some(<<"a">>)>>}
\* A report of a text with ARG K=a and, in a later stage, a bare ARG K.
C24_Witness ==
    /\ Done
    /\ df = <<ArgWithDefault, FromInstr(<<"u">>, None), ArgBare>>
    /\ report.args = {<<<<"K">>, None>>}
    /\ report.labels = {} /\ report.env_vars = {}

=============================================================================
